---- MODULE Spec2Model ----
(***************************************************************************)
(* CC3MDataset (dinov2/data/datasets/cc3m.py): an image-folder dataset.    *)
(* Construction walks a directory tree, keeps the files whose lower-cased  *)
(* name ends in an allow-listed extension, and sorts the joined paths.     *)
(* __getitem__ wraps the parent's __getitem__ in a bounded retry loop that *)
(* skips to the next index when the parent reports an unreadable image.    *)
(*                                                                         *)
(* Strings are sequences of one-character strings, compared by code point  *)
(* as Python compares str.                                                 *)
(***************************************************************************)
EXTENDS Integers, Sequences, FiniteSets, TLC

(***************************************************************************)
(* Bounds of the model.                                                    *)
(***************************************************************************)
\* Largest number of image files in a directory tree of Spec.
MaxFiles == 5
\* Largest number of directory entries in a tree of SpecBuild.
MaxTree == 4

(***************************************************************************)
(* Characters and strings.                                                 *)
(***************************************************************************)
\* Code points of the characters that occur in the modelled names.
Code ==
    "." :> 46 @@ "/" :> 47 @@
    "B" :> 66 @@ "G" :> 71 @@ "J" :> 74 @@ "N" :> 78 @@ "P" :> 80 @@
    "a" :> 97 @@ "b" :> 98 @@ "c" :> 99 @@ "d" :> 100 @@ "e" :> 101 @@
    "f" :> 102 @@ "g" :> 103 @@ "h" :> 104 @@ "j" :> 106 @@ "k" :> 107 @@
    "m" :> 109 @@ "n" :> 110 @@ "p" :> 112 @@ "r" :> 114 @@ "t" :> 116 @@
    "w" :> 119 @@ "x" :> 120

\* str.lower() on one character: an upper-case letter moves up by 32.
LowerChar(c) ==
    IF Code[c] >= 65 /\ Code[c] <= 90
    THEN CHOOSE l \in DOMAIN Code : Code[l] = Code[c] + 32
    ELSE c

\* str.lower()
lower(s) == [i \in 1..Len(s) |-> LowerChar(s[i])]

\* str.endswith(suffix) for one suffix
EndsWithOne(s, suf) ==
    /\ Len(s) >= Len(suf)
    /\ SubSeq(s, Len(s) - Len(suf) + 1, Len(s)) = suf

\* exts = (".jpg", ".jpeg", ".png", ".bmp", ".webp")
exts ==
    { <<".", "j", "p", "g">>, <<".", "j", "p", "e", "g">>, <<".", "p", "n", "g">>,
      <<".", "b", "m", "p">>, <<".", "w", "e", "b", "p">> }

\* str.endswith(tuple): true when the string ends with any member
endswith(s, sufs) == \E suf \in sufs : EndsWithOne(s, suf)

\* The filter of the walk loop that drops the lower-casing (a mutation).
IsImageNameCaseSensitive(fname) == endswith(fname, exts)

\* fname.lower().endswith(exts)
IsImageName(fname) == endswith(lower(fname), exts)

\* Python's str < str: the first differing code point decides, a proper
\* prefix is smaller.
RECURSIVE StrLess(_, _)
StrLess(a, b) ==
    IF b = <<>> THEN FALSE
    ELSE IF a = <<>> THEN TRUE
    ELSE IF Code[Head(a)] # Code[Head(b)] THEN Code[Head(a)] < Code[Head(b)]
    ELSE StrLess(Tail(a), Tail(b))

(***************************************************************************)
(* The filesystem.  A file is [dir, name]: dir is the sequence of          *)
(* directory names below the root, name the file name.                     *)
(***************************************************************************)
\* self.root
root == <<"r">>

RECURSIVE JoinDirs(_, _)
JoinDirs(base, dirs) ==
    IF dirs = <<>> THEN base
    ELSE JoinDirs(base \o <<"/">> \o Head(dirs), Tail(dirs))

\* dirpath as os.walk reports it for the directory `dir` below root
DirPath(dir) == JoinDirs(root, dir)

\* os.path.join(dirpath, fname)
PathJoin(dirpath, fname) == dirpath \o <<"/">> \o fname

PathOf(f) == PathJoin(DirPath(f.dir), f.name)

\* All orderings of a finite set, as sequences.
RECURSIVE Orderings(_)
Orderings(S) ==
    IF S = {} THEN { <<>> }
    ELSE UNION { { <<x>> \o rest : rest \in Orderings(S \ {x}) } : x \in S }

IsPrefix(p, s) == Len(p) <= Len(s) /\ SubSeq(s, 1, Len(p)) = p

\* The immediate subdirectories of `dir` that hold a file of `t` at any depth.
SubDirs(t, dir) ==
    { SubSeq(f.dir, 1, Len(dir) + 1) :
        f \in { g \in t : Len(g.dir) > Len(dir) /\ IsPrefix(dir, g.dir) } }

\* os.walk(top), top-down: a directory is reported with its file names in
\* listing order, then each subdirectory is walked in listing order.  The
\* listing order is the filesystem's and is not fixed: every order is a
\* possible walk.  The result is the sequence of (dirpath, fname) pairs in
\* the order the two nested loops of __init__ see them.
RECURSIVE Walk(_, _)
RECURSIVE WalkEach(_, _)
WalkEach(t, dirseq) ==
    IF dirseq = <<>> THEN { <<>> }
    ELSE { a \o b : a \in Walk(t, Head(dirseq)), b \in WalkEach(t, Tail(dirseq)) }

Walk(t, dir) ==
    { here \o below :
        here \in Orderings({ f \in t : f.dir = dir }),
        below \in UNION { WalkEach(t, ds) : ds \in Orderings(SubDirs(t, dir)) } }

\* paths.append(os.path.join(dirpath, fname)) under the extension filter
RECURSIVE Collect(_)
Collect(walk) ==
    IF walk = <<>> THEN <<>>
    ELSE IF IsImageName(Head(walk).name)
         THEN <<PathOf(Head(walk))>> \o Collect(Tail(walk))
         ELSE Collect(Tail(walk))

\* Insert p into the sorted sequence s, after the entries not greater than it.
RECURSIVE Insert(_, _)
Insert(p, s) ==
    IF s = <<>> THEN <<p>>
    ELSE IF StrLess(p, Head(s)) THEN <<p>> \o s
    ELSE <<Head(s)>> \o Insert(p, Tail(s))

RECURSIVE SortedOf(_)
SortedOf(ps) ==
    IF ps = <<>> THEN <<>>
    ELSE Insert(ps[Len(ps)], SortedOf(SubSeq(ps, 1, Len(ps) - 1)))

\* A constructor that forgets paths.sort() (a mutation).
Unsorted(ps) == ps

\* paths.sort()
Sort(ps) == SortedOf(ps)

(***************************************************************************)
(* Directory trees the model draws from.                                   *)
(***************************************************************************)
Str1(c) == <<c>>

Letters == <<"a", "b", "c", "d", "e", "f", "g", "h">>

ExtCycle ==
    << <<".", "j", "p", "g">>, <<".", "P", "N", "G">>, <<".", "j", "p", "e", "g">>,
       <<".", "b", "m", "p">>, <<".", "w", "e", "b", "p">> >>

DirCycle == << <<>>, << Str1("d") >>, << Str1("e") >> >>

\* The k-th image file of a tree of Spec.
ImageFile(k) ==
    [dir  |-> DirCycle[(k % Len(DirCycle)) + 1],
     name |-> Str1(Letters[k]) \o ExtCycle[(k % Len(ExtCycle)) + 1]]

\* A file that is no image: n.txt in the root.
NotesFile == [dir |-> <<>>, name |-> <<"n", ".", "t", "x", "t">>]

\* The directory entries a tree of SpecBuild is drawn from: image files in
\* the root and in nested directories, extensions in upper and mixed case,
\* and names that only look like images.
BuildUniverse ==
    { [dir |-> <<>>, name |-> <<"a", ".", "j", "p", "g">>],
      [dir |-> <<>>, name |-> <<"B", ".", "P", "N", "G">>],
      NotesFile,
      [dir |-> <<>>, name |-> <<"d", ".", "b", "m", "p">>],
      [dir |-> <<>>, name |-> <<"j", "p", "g">>],
      [dir |-> << Str1("d") >>, name |-> <<"e", ".", "j", "p", "e", "g">>],
      [dir |-> << Str1("d") >>, name |-> <<"f", ".", "w", "e", "b", "p", ".", "b", "a", "k">>],
      [dir |-> << Str1("d"), Str1("g") >>, name |-> <<"h", ".", "J", "p", "G">>],
      [dir |-> << Str1("e") >>, name |-> <<"c", ".", "w", "e", "b", "p">>] }

(***************************************************************************)
(* State.                                                                  *)
(***************************************************************************)
VARIABLES
    tree,         \* the files under root
    content,      \* per path: "valid", "corrupt" (undecodable bytes) or "denied" (open fails)
    ds,           \* the dataset object: "none", "ok" or "NoSamplesFound"
    paths,        \* self._paths
    transforms,   \* the transform and target_transform given to the constructor
    pc,           \* per caller: "idle", "loop", "returned" or "raised"
    index,        \* per caller: the argument of __getitem__
    num_trials,   \* per caller: local of __getitem__
    cur_index,    \* per caller: local of __getitem__
    attempts,     \* per caller: the indices handed to the parent's __getitem__, in order
    result        \* per caller: what the last finished call returned or raised

vars ==
    <<tree, content, ds, paths, transforms, pc, index, num_trials, cur_index,
      attempts, result>>

fsVars == <<tree, content>>
dsVars == <<ds, paths, transforms>>
callVars == <<pc, index, num_trials, cur_index, attempts, result>>

\* The concurrent callers of __getitem__: two workers of a data loader.
Callers == {"w1", "w2"}

NoResult == [kind |-> "none"]

\* The transform / target_transform arguments of the constructor.  "Faulty"
\* is a transform that raises, "Succ" a target transform that adds one.
ConstructorArgs ==
    { [transform |-> "None", target_transform |-> "None"],
      [transform |-> "Faulty", target_transform |-> "None"],
      [transform |-> "None", target_transform |-> "Succ"] }

CallInit ==
    /\ pc = [c \in Callers |-> "idle"]
    /\ index = [c \in Callers |-> 0]
    /\ num_trials = [c \in Callers |-> 0]
    /\ cur_index = [c \in Callers |-> 0]
    /\ attempts = [c \in Callers |-> <<>>]
    /\ result = [c \in Callers |-> NoResult]

DsInit ==
    /\ ds = "none"
    /\ paths = <<>>
    /\ transforms = [transform |-> "None", target_transform |-> "None"]

\* Spec: up to MaxFiles image files spread over the root and two
\* subdirectories, next to one file that is no image; any of the images may
\* be corrupt, and at most one may not be opened.
Init ==
    /\ \E n \in 0..MaxFiles :
         /\ tree = { ImageFile(k) : k \in 1..n } \cup { NotesFile }
         /\ content \in [{ PathOf(f) : f \in tree } -> {"valid", "corrupt", "denied"}]
         /\ content[PathOf(NotesFile)] = "valid"
         /\ Cardinality({ p \in DOMAIN content : content[p] = "denied" }) <= 1
    /\ DsInit
    /\ CallInit

\* SpecBuild: any tree of at most MaxTree entries of BuildUniverse, all of
\* them readable.
InitBuild ==
    /\ tree \in { t \in SUBSET BuildUniverse : Cardinality(t) <= MaxTree }
    /\ content = [p \in { PathOf(f) : f \in tree } |-> "valid"]
    /\ DsInit
    /\ CallInit

(***************************************************************************)
(* __init__                                                                *)
(***************************************************************************)
\* A constructor that accepts an empty path list (a mutation).
NeverEmpty(ps) == FALSE

\* len(paths) == 0
NoSamplesFound(ps) == Len(ps) = 0

\* The path list __init__ builds from one walk of the tree.
BuildPaths(walk) == Sort(Collect(walk))

\* __init__ raises RuntimeError("no image files found ..."): no object.
ConstructFails ==
    /\ ds = "none"
    /\ \E walk \in Walk(tree, <<>>) : NoSamplesFound(BuildPaths(walk))
    /\ ds' = "NoSamplesFound"
    /\ UNCHANGED <<paths, transforms, fsVars, callVars>>

\* __init__ returns: self._paths is the sorted list.
ConstructOk ==
    /\ ds = "none"
    /\ \E walk \in Walk(tree, <<>>), args \in ConstructorArgs :
         /\ ~NoSamplesFound(BuildPaths(walk))
         /\ paths' = BuildPaths(walk)
         /\ transforms' = args
    /\ ds' = "ok"
    /\ UNCHANGED <<fsVars, callVars>>

\* __len__
Length == Len(paths)

(***************************************************************************)
(* Exceptions and samples.                                                 *)
(***************************************************************************)
\* max_trials = 5
max_trials == 5

Error(type, msg) == [kind |-> "error", type |-> type, msg |-> msg]

\* The text the handler of __getitem__ looks for in a RuntimeError.
Marker == <<"can", "not", "read", "image", "for", "sample">>

\* `sub in s` on messages, word by word
Contains(sub, s) ==
    \E k \in 0..(Len(s) - Len(sub)) : SubSeq(s, k + 1, k + Len(sub)) = sub

\* The parent's report of an image it could not decode.
DecodeFailure(i) == Error("RuntimeError", Marker \o <<ToString(i)>>)

\* What a raising transform raises.
TransformError == Error("RuntimeError", <<"transform", "failed">>)

\* open(path, "rb") on a file the process may not read
PermissionError(p) == Error("PermissionError", <<"Permission", "denied">>)

\* self._paths[index] with index outside -len..len-1
IndexError == Error("IndexError", <<"list", "index", "out", "of", "range">>)

\* An error text that names the index the loop stopped at (a mutation).
ExhaustedAtCurrent(c) ==
    Error("RuntimeError",
          <<"too", "many", "unreadable", "images", "around", "index", ToString(cur_index[c])>>)

\* RuntimeError(f"CC3MDataset: too many unreadable images around index {index}. ...")
ExhaustedRetries(c) ==
    Error("RuntimeError",
          <<"too", "many", "unreadable", "images", "around", "index", ToString(index[c])>>)

(***************************************************************************)
(* Sample access.                                                          *)
(***************************************************************************)
\* list.__getitem__(i): the position (from 1) that i names in a list of
\* length n, 0 when i is out of range.  Negative i counts from the end.
ListPos(n, i) ==
    IF i >= 0 /\ i < n THEN i + 1
    ELSE IF i < 0 /\ i >= -n THEN n + i + 1
    ELSE 0

\* get_image_data(index): the bytes of the file, or what open / indexing raise
get_image_data(i) ==
    LET pos == ListPos(Len(paths), i) IN
    IF pos = 0 THEN IndexError
    ELSE LET path == paths[pos] IN
         IF content[path] = "denied" THEN PermissionError(path)
         ELSE [kind |-> "bytes", path |-> path, data |-> content[path]]

\* A placeholder label of 1 (a mutation).
get_target_one(i) == 1

\* get_target(index)
get_target(i) == 0

\* get_targets(): np.zeros(len(self._paths))
get_targets == [k \in 1..Len(paths) |-> 0]

ApplyTargetTransform(t) ==
    IF transforms.target_transform = "Succ" THEN t + 1 ELSE t

\* ExtendedVisionDataset.__getitem__(index): read, decode, transform.  Only
\* an undecodable image is reported as the RuntimeError carrying Marker;
\* every other failure leaves as it was raised.
ParentGetItem(i) ==
    LET bytes == get_image_data(i) IN
    IF bytes.kind = "error" THEN bytes
    ELSE IF bytes.data = "corrupt" THEN DecodeFailure(i)
    ELSE IF transforms.transform = "Faulty" THEN TransformError
    ELSE [kind |-> "sample", image |-> bytes.path,
          label |-> ApplyTargetTransform(get_target(i))]

(***************************************************************************)
(* __getitem__                                                             *)
(***************************************************************************)
\* The indices callers pass: every index of [0, len), the first one past the
\* end, -1 (the last entry, counted from the end) and the first one too
\* negative to count from the end.
IndexInputs == (0..Len(paths)) \cup {-1, -(Len(paths) + 1)}

\* A counter that keeps its value from the caller's previous call (a mutation).
StaleTrials(c) == num_trials[c]

\* num_trials = 0
StartTrials(c) == 0

\* A step that skips the neighbouring index (a mutation).
NextIndexSkips(cur) == (cur + 2) % Len(paths)

\* A step to the next index that does not wrap around (a mutation).
NextIndexNoWrap(cur) == cur + 1

\* (cur_index + 1) % len(self._paths)
NextIndex(cur) == (cur + 1) % Len(paths)

\* A handler that retries on every exception (a mutation).
CatchesAll(e) == TRUE

\* except RuntimeError as e, and the marker is in str(e)
IsUnreadableImage(e) == e.type = "RuntimeError" /\ Contains(Marker, e.msg)

Finish(c, how, r) ==
    /\ pc' = [pc EXCEPT ![c] = how]
    /\ result' = [result EXCEPT ![c] = r]

\* The entry of __getitem__(index): the locals are set.
Call(c) ==
    /\ ds = "ok"
    /\ pc[c] # "loop"
    /\ \E i \in IndexInputs :
         /\ index' = [index EXCEPT ![c] = i]
         /\ cur_index' = [cur_index EXCEPT ![c] = i]
    /\ num_trials' = [num_trials EXCEPT ![c] = StartTrials(c)]
    /\ attempts' = [attempts EXCEPT ![c] = <<>>]
    /\ Finish(c, "loop", NoResult)
    /\ UNCHANGED <<fsVars, dsVars>>

Trying(c) == pc[c] = "loop" /\ num_trials[c] < max_trials

Tried(c) == attempts' = [attempts EXCEPT ![c] = Append(@, cur_index[c])]

\* One pass of the loop in which the parent returns a sample.
AttemptReturns(c) ==
    /\ Trying(c)
    /\ ParentGetItem(cur_index[c]).kind = "sample"
    /\ Tried(c)
    /\ Finish(c, "returned", ParentGetItem(cur_index[c]))
    /\ UNCHANGED <<fsVars, dsVars, index, num_trials, cur_index>>

\* One pass in which the parent raises something the handler does not keep:
\* an exception that is no RuntimeError, or a RuntimeError without the marker.
AttemptRaises(c) ==
    /\ Trying(c)
    /\ ParentGetItem(cur_index[c]).kind = "error"
    /\ ~IsUnreadableImage(ParentGetItem(cur_index[c]))
    /\ Tried(c)
    /\ Finish(c, "raised", ParentGetItem(cur_index[c]))
    /\ UNCHANGED <<fsVars, dsVars, index, num_trials, cur_index>>

\* One pass in which the parent reports an unreadable image: next index.
AttemptRetries(c) ==
    /\ Trying(c)
    /\ ParentGetItem(cur_index[c]).kind = "error"
    /\ IsUnreadableImage(ParentGetItem(cur_index[c]))
    /\ Tried(c)
    /\ num_trials' = [num_trials EXCEPT ![c] = @ + 1]
    /\ cur_index' = [cur_index EXCEPT ![c] = NextIndex(@)]
    /\ UNCHANGED <<fsVars, dsVars, index, pc, result>>

\* The loop ends without a sample: the final raise.
GiveUp(c) ==
    /\ pc[c] = "loop"
    /\ ~(num_trials[c] < max_trials)
    /\ Finish(c, "raised", ExhaustedRetries(c))
    /\ UNCHANGED <<fsVars, dsVars, index, num_trials, cur_index, attempts>>

GetItem(c) ==
    \/ Call(c)
    \/ AttemptReturns(c)
    \/ AttemptRaises(c)
    \/ AttemptRetries(c)
    \/ GiveUp(c)

(***************************************************************************)
(* Specifications.                                                         *)
(***************************************************************************)
Next ==
    \/ ConstructFails
    \/ ConstructOk
    \/ \E c \in Callers : GetItem(c)

Spec == Init /\ [][Next]_vars

NextBuild == ConstructFails \/ ConstructOk

SpecBuild == InitBuild /\ [][NextBuild]_vars

(***************************************************************************)
(* Vocabulary of the properties.                                           *)
(***************************************************************************)
Finished(c) == pc[c] \in {"returned", "raised"}

InRange(i) == i >= 0 /\ i < Length

\* The state of the file behind entry j (from 0) of the path list.
StatusAt(j) == content[paths[j + 1]]

\* The sample of entry j (from 0): the decoded image of that file.
ImageAt(j) == paths[j + 1]

Wrap(i) == i % Length

\* Upper-case letters and their lower-case forms.
CaseFold == "B" :> "b" @@ "G" :> "g" @@ "J" :> "j" @@ "N" :> "n" @@ "P" :> "p"

Fold(ch) == IF ch \in DOMAIN CaseFold THEN CaseFold[ch] ELSE ch

\* The name ends, case-insensitively, in .jpg, .jpeg, .png, .bmp or .webp.
HasAllowedExtension(name) ==
    \E e \in { <<".", "j", "p", "g">>, <<".", "j", "p", "e", "g">>,
               <<".", "p", "n", "g">>, <<".", "b", "m", "p">>,
               <<".", "w", "e", "b", "p">> } :
        /\ Len(name) >= Len(e)
        /\ \A k \in 1..Len(e) : Fold(name[Len(name) - Len(e) + k]) = e[k]

MatchingFiles == { f \in tree : HasAllowedExtension(f.name) }

\* a sorts strictly before b: at the first position where they differ a has
\* the smaller code point, or a is a proper prefix of b.
LexBefore(a, b) ==
    \/ /\ Len(a) < Len(b)
       /\ \A k \in 1..Len(a) : a[k] = b[k]
    \/ \E k \in 1..Len(a) :
          /\ k <= Len(b)
          /\ \A m \in 1..(k - 1) : a[m] = b[m]
          /\ Code[a[k]] < Code[b[k]]

(***************************************************************************)
(* C1.  A call GetItem(i) with i in [0, Length()) that returns a sample    *)
(* returns the sample of entry (i + k) mod Length(), where k in 0..4 is    *)
(* the smallest offset whose entry decodes; it got there by exactly k      *)
(* failed decode attempts at i, i+1, ..., i+k-1 (mod Length()), in that    *)
(* order.  No call hands more than 5 indices to the parent.                *)
(***************************************************************************)
C1_RetryReachesNextDecodable ==
    \A c \in Callers :
        /\ Len(attempts[c]) <= 5
        /\ (pc[c] = "returned" /\ InRange(index[c])) =>
             LET i == index[c]
                 k == Len(attempts[c]) - 1
             IN /\ k \in 0..4
                /\ attempts[c] = [j \in 1..(k + 1) |-> Wrap(i + j - 1)]
                /\ \A j \in 0..(k - 1) : StatusAt(Wrap(i + j)) = "corrupt"
                /\ StatusAt(Wrap(i + k)) = "valid"
                /\ result[c].kind = "sample"
                /\ result[c].image = ImageAt(Wrap(i + k))

\* The example of the specification: three entries [valid, valid, corrupt];
\* GetItem(2) has returned entry 0 after one retry.
C1_Witness ==
    /\ ds = "ok" /\ Length = 3
    /\ StatusAt(0) = "valid" /\ StatusAt(1) = "valid" /\ StatusAt(2) = "corrupt"
    /\ \E c \in Callers :
         /\ pc[c] = "returned" /\ index[c] = 2
         /\ attempts[c] = <<2, 0>>
         /\ result[c].image = ImageAt(0)

(***************************************************************************)
(* C2.  When the five entries i, i+1, ..., i+4 (mod Length()) all fail to  *)
(* decode, GetItem(i) fails with ExhaustedRetries, and the error names i,  *)
(* the index of the call, not the index the loop stopped at.               *)
(***************************************************************************)
C2_ExhaustedNamesOriginalIndex ==
    \A c \in Callers :
        ( /\ Finished(c)
          /\ InRange(index[c])
          /\ \A j \in 0..4 : StatusAt(Wrap(index[c] + j)) = "corrupt" ) =>
            /\ pc[c] = "raised"
            /\ Len(attempts[c]) = 5
            /\ result[c].kind = "error"
            /\ result[c].type = "RuntimeError"
            /\ result[c].msg =
                 <<"too", "many", "unreadable", "images", "around", "index",
                   ToString(index[c])>>

\* Five consecutive corrupt entries, without wrap-around, and a call at the
\* first of them has failed after five attempts.
C2_Witness ==
    /\ ds = "ok" /\ Length >= 5
    /\ \E c \in Callers :
         /\ pc[c] = "raised"
         /\ InRange(index[c]) /\ index[c] + 4 < Length
         /\ \A j \in 0..4 : StatusAt(index[c] + j) = "corrupt"
         /\ Len(attempts[c]) = 5
         /\ result[c].msg[1] = "too"

(***************************************************************************)
(* C3.  A failure of an attempt that is not "image could not be decoded"   *)
(* (the file may not be opened, the transform raises, the index is out of  *)
(* range) ends the call at that attempt: it is the last attempt, and the   *)
(* call raises that very exception, not ExhaustedRetries.                  *)
(***************************************************************************)
C3_OtherFailuresPropagate ==
    \A c \in Callers :
        \A j \in 1..Len(attempts[c]) :
            LET out == ParentGetItem(attempts[c][j]) IN
            (out.kind = "error" /\ out # DecodeFailure(attempts[c][j])) =>
                /\ j = Len(attempts[c])
                /\ pc[c] = "raised"
                /\ result[c] = out

\* A call that retried past a corrupt entry and then met a file it may not
\* open: the PermissionError has left the call.
C3_Witness ==
    \E c \in Callers :
        /\ pc[c] = "raised"
        /\ Len(attempts[c]) >= 2
        /\ result[c].kind = "error"
        /\ result[c].type = "PermissionError"

(***************************************************************************)
(* C4.  In a dataset of N >= 1 decodable files and exactly one corrupt     *)
(* file, every GetItem(i) with i in [0, Length()) returns a sample: entry  *)
(* i itself, or for the corrupt entry the next one, (i + 1) mod Length().  *)
(***************************************************************************)
OneCorruptFile ==
    /\ ds = "ok" /\ Length >= 2
    /\ transforms.transform # "Faulty"
    /\ \A j \in 0..(Length - 1) : StatusAt(j) \in {"valid", "corrupt"}
    /\ Cardinality({ j \in 0..(Length - 1) : StatusAt(j) = "corrupt" }) = 1

C4_SingleCorruptFileIsBridged ==
    OneCorruptFile =>
        \A c \in Callers :
            (Finished(c) /\ InRange(index[c])) =>
                /\ pc[c] = "returned"
                /\ result[c].kind = "sample"
                /\ result[c].image =
                     IF StatusAt(index[c]) = "corrupt"
                     THEN ImageAt(Wrap(index[c] + 1))
                     ELSE ImageAt(index[c])

\* The corrupt file is the last entry, and a call at its index has returned
\* the first entry.
C4_Witness ==
    /\ OneCorruptFile
    /\ StatusAt(Length - 1) = "corrupt"
    /\ \E c \in Callers :
         /\ pc[c] = "returned" /\ index[c] = Length - 1
         /\ result[c].image = ImageAt(0)

(***************************************************************************)
(* C5.  For every index outside [0, Length()), GetItem(index) fails with   *)
(* IndexOutOfRange: no sample is returned, and the access is neither       *)
(* retried nor redirected to another index.                                *)
(***************************************************************************)
C5_OutOfRangeFails ==
    \A c \in Callers :
        (Finished(c) /\ ~InRange(index[c])) =>
            /\ pc[c] = "raised"
            /\ result[c].kind = "error"
            /\ result[c].type = "IndexError"
            /\ attempts[c] = <<index[c]>>

(***************************************************************************)
(* C6.  When the tree holds at least one file whose name ends, in any      *)
(* case, in an allow-listed extension, construction does not fail, and the *)
(* constructed dataset lists exactly those files, each once: Length() is   *)
(* their number, files of nested directories included, others excluded.    *)
(***************************************************************************)
C6_LengthCountsImageFiles ==
    (MatchingFiles # {}) =>
        /\ ds # "NoSamplesFound"
        /\ (ds = "ok") =>
             /\ Length = Cardinality(MatchingFiles)
             /\ { paths[k] : k \in 1..Length } = { PathOf(f) : f \in MatchingFiles }

\* A constructed dataset over a tree with an upper-case extension, a nested
\* image and a file that is no image.
C6_Witness ==
    /\ ds = "ok"
    /\ \E f \in tree : f.dir # <<>> /\ HasAllowedExtension(f.name)
    /\ \E f \in tree : f.name = <<"B", ".", "P", "N", "G">>
    /\ \E f \in tree : ~HasAllowedExtension(f.name)
    /\ Length = 3

(***************************************************************************)
(* C7.  When no file under root has an allow-listed extension, the         *)
(* constructor fails with NoSamplesFound and leaves no dataset: no path    *)
(* list, and no GetItem ever runs.  A constructed dataset has              *)
(* Length() >= 1.                                                          *)
(***************************************************************************)
C7_NoSamplesFoundAtConstruction ==
    /\ (MatchingFiles = {}) => ds # "ok"
    /\ (ds = "NoSamplesFound") => (MatchingFiles = {} /\ paths = <<>>)
    /\ (ds = "ok") => Length >= 1
    /\ \A c \in Callers : (pc[c] # "idle") => ds = "ok"

\* The constructor has failed over a tree that holds files, none an image.
C7_Witness ==
    /\ ds = "NoSamplesFound"
    /\ tree # {}
    /\ MatchingFiles = {}

C9_PathOrderIsDeterministic ==
    (ds = "ok") =>
        /\ \A k \in 1..(Length - 1) : LexBefore(paths[k], paths[k + 1])
        /\ \A walk \in Walk(tree, <<>>) : BuildPaths(walk) = paths

\* A constructed dataset of at least three paths over a tree that some walk
\* reports in another order than the sorted one.
C9_Witness ==
    /\ ds = "ok"
    /\ Length >= 3
    /\ \E walk \in Walk(tree, <<>>) : Collect(walk) # paths

(***************************************************************************)
(* C10.  Once constructed, the dataset (path list, Length(), transforms)   *)
(* never changes, whatever the callers do.  Every call starts with a fresh *)
(* retry counter and its own index, and a step of one caller leaves the    *)
(* other callers' locals and results alone; so calls with the same index   *)
(* end the same way whatever ran before or beside them.                    *)
(***************************************************************************)
CallStarts(c) == pc[c] # "loop" /\ pc'[c] = "loop"

LocalsOf(c) == <<pc[c], index[c], num_trials[c], cur_index[c], attempts[c], result[c]>>

C10_Frame ==
    /\ (ds = "ok") => (ds' = ds /\ paths' = paths /\ transforms' = transforms)
    /\ \A c \in Callers :
         CallStarts(c) =>
            /\ num_trials'[c] = 0
            /\ cur_index'[c] = index'[c]
            /\ attempts'[c] = <<>>
    /\ \A c, o \in Callers :
         (c # o /\ LocalsOf(c)' # LocalsOf(c)) => LocalsOf(o)' = LocalsOf(o)

C10_SameOutcome ==
    \A c, o \in Callers :
        (Finished(c) /\ Finished(o) /\ index[c] = index[o]) =>
            /\ pc[c] = pc[o]
            /\ result[c] = result[o]
            /\ attempts[c] = attempts[o]

C10_CallsDoNotInterfere == [][C10_Frame]_vars /\ []C10_SameOutcome

\* One caller has failed after retries and the other has since returned a
\* sample reached by retry; the path list is what the constructor built.
C10_Witness ==
    /\ ds = "ok"
    /\ \E c, o \in Callers :
         /\ pc[c] = "raised" /\ Len(attempts[c]) >= 2
         /\ pc[o] = "returned" /\ Len(attempts[o]) >= 2
    /\ \A walk \in Walk(tree, <<>>) : BuildPaths(walk) = paths

====
